---- MODULE Spec2Model ----
(***************************************************************************)
(* GestureComponent.tsx: a React function component.  Every render makes   *)
(* fresh closures: the handlers of a render read the state values of that  *)
(* render, while state setters with an updater and isRecordingRef read the *)
(* live values.  A re-render follows every state change before the next    *)
(* task runs, so the record button always holds the closures of the latest *)
(* render; a timeout callback and a frame loop keep the closures of the    *)
(* render that created them.                                               *)
(*                                                                         *)
(* Coordinates are fixed-point numbers in thousandths (x = 300 is 0.3);    *)
(* time is in milliseconds.                                                *)
(***************************************************************************)
EXTENDS Integers, Sequences, FiniteSets, TLC

VARIABLES
    video,              \* props.video is not null
    waveform,           \* props.waveform is not null
    videoReady,         \* video.videoHeight > 0 && video.videoWidth > 0
    isRecording,        \* useState
    recordingStartTime, \* useState (NoTime is null)
    frameBuffer,        \* useState
    recordedGestures,   \* useState
    volume,             \* useState
    isVolumeVisible,    \* useState
    isRecordingRef,     \* useRef: isRecordingRef.current
    now,                \* Date.now()
    timers,             \* the auto-stop timeouts, one per startRecording call
    loops,              \* one entry per effect run that called createGestureRecognizer
    sess,               \* history: one entry per recording session
    steps,              \* history: number of steps taken so far
    classifier,         \* state hook: 0 for null, else the trainModel call that set it
    fits,               \* one entry per trainModel call
    last,               \* history: the last continuation of a recognition call
    gestureLabel,       \* useState: the text of the label input
    fnIn,               \* input of the pure function under check
    fnOut               \* its output

vars == <<video, waveform, videoReady, isRecording, recordingStartTime, frameBuffer,
          recordedGestures, volume, isVolumeVisible, isRecordingRef, now, timers,
          loops, sess, steps, classifier, fits, last, gestureLabel, fnIn, fnOut>>

reactVars == <<isRecording, recordingStartTime, frameBuffer, recordedGestures,
               volume, isVolumeVisible, isRecordingRef>>

fnVars == <<fnIn, fnOut>>

trainVars == <<classifier, fits>>

----------------------------------------------------------------------------
(* Bounds *)

MaxSteps == 9

\* the length of the longer runs of the recording and training pipeline
MaxSessionSteps == 13

TickSteps == {1000}

----------------------------------------------------------------------------
(* Program constants *)

MAX_RECORDING_DURATION == 2000
maxRetries == 3
numHands == 2
NoTime == 0
VolumeHideDelay == 3000

----------------------------------------------------------------------------
(* Small helpers *)

Min(a, b) == IF a < b THEN a ELSE b

Truthy(n) == n # 0

----------------------------------------------------------------------------
(* Pure functions *)

\* normalizeCoordinates: every point relative to landmarks[0]; a point whose z
\* is falsy (0) gets z = 0.0 instead of the difference.
normalizeCoordinates(landmarks) ==
    LET basePoint == landmarks[0]
    IN  [i \in DOMAIN landmarks |->
            [x |-> landmarks[i].x - basePoint.x,
             y |-> landmarks[i].y - basePoint.y,
             z |-> IF Truthy(landmarks[i].z)
                   THEN landmarks[i].z - basePoint.z
                   ELSE 0]]

\* extractGestureFeatures: the [x, y, z] of landmark 8, five zeros for no landmarks.
extractGestureFeatures(landmarks) ==
    IF DOMAIN landmarks = {}
    THEN <<0, 0, 0, 0, 0>>
    ELSE LET keypoint == landmarks[8]
         IN  <<keypoint.x, keypoint.y, IF Truthy(keypoint.z) THEN keypoint.z ELSE 0>>

\* features[i] = v on a JavaScript array (0-based i): an index past the end
\* grows the array, the skipped slots being holes.
ArraySet(arr, i, v) ==
    IF i < Len(arr)
    THEN [arr EXCEPT ![i + 1] = v]
    ELSE arr \o [k \in 1..(i - Len(arr)) |-> "hole"] \o <<v>>

feats_per_t == 3
normal_seq_len == 10

RECURSIVE WritePoint(_, _, _, _)
\* the inner loop of extractFeatures: for (f = 0; f < point.length; f++)
WritePoint(features, t, point, f) ==
    IF f < Len(point)
    THEN WritePoint(ArraySet(features, feats_per_t * t + f, point[f + 1]), t, point, f + 1)
    ELSE features

RECURSIVE WriteBuffer(_, _, _)
\* the outer loop of extractFeatures: for (t = 0; t < buffer.length; t++)
WriteBuffer(features, buffer, t) ==
    IF t < Len(buffer)
    THEN WriteBuffer(WritePoint(features, t, buffer[t + 1], 0), buffer, t + 1)
    ELSE features

extractFeatures(buffer) ==
    WriteBuffer([k \in 1..(feats_per_t * normal_seq_len) |-> 0], buffer, 0)

\* (num / den).toFixed(0) parsed back: the nearest integer, a tie away from zero.
ToFixed0(num, den) ==
    IF num >= 0
    THEN (2 * num + den) \div (2 * den)
    ELSE -((2 * (-num) + den) \div (2 * den))

\* handleVolume: currentVolume = 1 - landmarks[8].x, in thousandths
RawVolume(x) == 1000 - x

\* handleVolume: Math.min(100, parseFloat((currentVolume * 100).toFixed(0)))
VolumePercent(x) == Min(100, ToFixed0(RawVolume(x), 10))

\* the label row with the test of the label inverted
LabelRowInverted(data) == IF data.y # "gestureLabel" THEN <<1, 0, 0, 0>> ELSE <<0, 1, 0, 0>>

\* trainModel: one label row per example
LabelRow(data) == IF data.y = "gestureLabel" THEN <<1, 0, 0, 0>> ELSE <<0, 1, 0, 0>>

TrainLabels(gestures) == [i \in 1..Len(gestures) |-> LabelRow(gestures[i])]

RECURSIVE Flat(_)
\* Array.prototype.flat() of an array of arrays
Flat(xs) == IF xs = <<>> THEN <<>> ELSE Head(xs) \o Flat(Tail(xs))

TrainInputs(gestures) == [i \in 1..Len(gestures) |-> Flat(gestures[i].x)]

\* trainModel up to model.fit: the tensors of the run, none for an empty example set
trainModel(gestures) ==
    IF Len(gestures) > 0
    THEN [started |-> TRUE, inputs |-> TrainInputs(gestures), labels |-> TrainLabels(gestures)]
    ELSE [started |-> FALSE, inputs |-> <<>>, labels |-> <<>>]

----------------------------------------------------------------------------
(* Detection frames: what recognizeForVideo resolves to *)

P(px, py, pz) == [x |-> px, y |-> py, z |-> pz]

\* a hand of 21 landmarks: the wrist is landmark 0, the index fingertip landmark 8
Hand(wrist, tip) == [i \in 0..20 |-> IF i = 8 THEN tip ELSE wrist]

HandA == Hand(P(500, 500, -100), P(300, 400, 50))
HandB == Hand(P(200, 600, 50), P(-200, 300, 100))
HandC == Hand(P(900, 500, 20), P(1200, 500, -50))

Frame(cats, hands, lms) == [gestures |-> cats, handednesses |-> hands, landmarks |-> lms]

Frames ==
    { Frame(<<>>, <<>>, <<>>),
      Frame(<<"Closed_Fist">>, <<"Left">>, <<HandA>>),
      Frame(<<"Closed_Fist">>, <<"Right">>, <<HandA>>),
      Frame(<<"Open_Palm", "Pointing_Up">>, <<"Right", "Left">>, <<HandB, HandC>>) }

\* what the GestureModel answers while one hand of a frame is handled
NoSound == "none"
Sounds == {NoSound, "kick"}
NoText == "none"
Answers == [cutText : {NoText, "cut"}, drum : Sounds, runPlayPause : BOOLEAN,
            speedText : {NoText, "speed"}, volumeStarted : BOOLEAN]

\* Of the answers, only volumeStarted changes what the component keeps (volume,
\* isVolumeVisible, volumeTimer); the others only decide calls to the audio
\* engine and the status text.  These answers give every state the frame loop
\* can reach.
LoopAnswers ==
    {a \in Answers : a.cutText = NoText /\ a.drum = NoSound /\ ~a.runPlayPause
                        /\ a.speedText = NoText}

----------------------------------------------------------------------------
(* The recording session: handleRecordButtonClick, startRecording, stopRecording.
   c is the closure (the state values of the render the handler belongs to),
   st the live state. *)

Closure == [isRecording |-> isRecording,
            recordingStartTime |-> recordingStartTime,
            frameBuffer |-> frameBuffer]

Live == [isRecording |-> isRecording,
         ref |-> isRecordingRef,
         recordingStartTime |-> recordingStartTime,
         frameBuffer |-> frameBuffer,
         recordedGestures |-> recordedGestures,
         timers |-> timers]

startRecording(c, st) ==
    [st EXCEPT !.isRecording = TRUE,
               !.frameBuffer = <<>>,
               !.recordingStartTime = now,
               !.ref = TRUE,
               !.timers = Append(@, [deadline |-> now + MAX_RECORDING_DURATION,
                                     pending |-> TRUE,
                                     c |-> c])]

\* stopRecording without the check that frames were captured
stopRecordingAnyBuffer(c, st) ==
    IF c.isRecording
    THEN [st EXCEPT !.isRecording = FALSE,
                    !.ref = FALSE,
                    !.recordedGestures =
                        Append(@, [x |-> c.frameBuffer,
                                   y |-> "gestureLabel",
                                   duration |-> now - c.recordingStartTime]),
                    !.recordingStartTime = NoTime]
    ELSE st

stopRecording(c, st) ==
    IF c.isRecording
    THEN LET duration == now - (IF Truthy(c.recordingStartTime)
                                THEN c.recordingStartTime ELSE 0)
         IN  [st EXCEPT !.isRecording = FALSE,
                        !.ref = FALSE,
                        !.recordedGestures =
                            IF Len(c.frameBuffer) > 0
                            THEN Append(@, [x |-> c.frameBuffer,
                                            y |-> "gestureLabel",
                                            duration |-> duration])
                            ELSE @,
                        !.recordingStartTime = NoTime]
    ELSE st

\* setIsRecording(prevIsRecording => ...): the updater reads the live state
handleRecordButtonClick(c, st) ==
    LET newRecordingState == ~st.isRecording
        s1 == [st EXCEPT !.ref = newRecordingState]
        s2 == IF newRecordingState THEN startRecording(c, s1) ELSE stopRecording(c, s1)
    IN  [s2 EXCEPT !.isRecording = newRecordingState]

\* the setTimeout callback of startRecording
autoStopCallback(c, st) ==
    IF st.ref THEN handleRecordButtonClick(c, st) ELSE st

----------------------------------------------------------------------------------------------------------------------------------------
(* The dispatcher: performAction and its handlers.  d carries what one
   dispatch writes: the volume state, the closure's volumeTimer and acts, the
   calls made to the GestureModel (calls), to the audio engine and the sound
   manager (audio), and the last status text written (status). *)

NoActs == [status |-> "unset", calls |-> <<>>, audio |-> <<>>]

Call(name, handedness) == [fn |-> name, hand |-> handedness]

Audio(name, handedness, value) == [fn |-> name, hand |-> handedness, arg |-> value]

\* detectAction and setGestureMesssage
detectAction(handedness, cutText, d) ==
    LET d1 == [d EXCEPT !.acts.calls = @ \o <<Call("updateFSMStates", handedness),
                                             Call("getCutText", handedness)>>]
    IN  IF cutText # NoText THEN [d1 EXCEPT !.acts.status = cutText] ELSE d1

\* handleDrums without the check of the handedness
handleDrumsAnyHand(handedness, sound, d) ==
    LET asked == [d EXCEPT !.acts.calls = Append(@, Call("getDrumSound", handedness))]
    IN  IF sound # NoSound
        THEN [asked EXCEPT !.acts.audio = Append(@, Audio("playSound", handedness, sound)),
                           !.acts.status = "drums"]
        ELSE asked

\* handleDrums; sound is what model.getDrumSound(landmarks) answers when asked
handleDrums(handedness, sound, d) ==
    IF handedness = "Left"
    THEN LET asked == [d EXCEPT !.acts.calls = Append(@, Call("getDrumSound", handedness))]
         IN  IF sound # NoSound
             THEN [asked EXCEPT
                      !.acts.audio = Append(@, Audio("playSound", handedness, sound)),
                      !.acts.status = "drums"]
             ELSE asked
    ELSE d

\* handlePlayPause; the loop's closure holds a waveform
handlePlayPause(handedness, runPlayPause, d) ==
    LET asked == [d EXCEPT !.acts.calls = Append(@, Call("runPlayPause", handedness))]
    IN  IF runPlayPause
        THEN [asked EXCEPT !.acts.audio = Append(@, Audio("playPause", handedness, 0))]
        ELSE asked

\* handleEffects
handleEffects(handedness, speedText, d) ==
    LET asked == [d EXCEPT !.acts.calls = Append(@, Call("getSpeedText", handedness))]
    IN  IF speedText # NoText
        THEN [asked EXCEPT
                 !.acts.status = speedText,
                 !.acts.audio = Append(@, Audio("setPlaybackRate", handedness, 0))]
        ELSE asked

\* handleRegions
handleRegions(handedness, d) ==
    [d EXCEPT !.acts.calls = Append(@, Call("handleLoopRegions", handedness))]

\* handleVolume; started is what model.isVolumeStarted() answers
handleVolume(handedness, landmarks, started, d) ==
    LET asked == [d EXCEPT !.acts.calls = Append(@, Call("isVolumeStarted", handedness))]
    IN  IF started
        THEN [asked EXCEPT
                 !.volume = VolumePercent(landmarks[8].x),
                 !.isVolumeVisible = TRUE,
                 !.acts.audio = Append(@, Audio("setVolume", handedness,
                                                RawVolume(landmarks[8].x))),
                 !.volumeTimer = now + VolumeHideDelay]
        ELSE asked

RECURSIVE DispatchHands(_, _, _, _)
\* the loop of performAction over results.gestures, hand i first
DispatchHands(results, answers, i, d) ==
    IF i > Len(results.gestures)
    THEN d
    ELSE LET handedness == results.handednesses[i]
             d1 == detectAction(handedness, answers[i].cutText, d)
             d2 == handleDrums(handedness, answers[i].drum, d1)
             d3 == handlePlayPause(handedness, answers[i].runPlayPause, d2)
             d4 == handleEffects(handedness, answers[i].speedText, d3)
             d5 == handleRegions(handedness, d4)
             d6 == handleVolume(handedness, results.landmarks[i],
                                answers[i].volumeStarted, d5)
         IN  DispatchHands(results, answers, i + 1, d6)

\* performAction without the branch for a frame without hands
performActionHandsOnly(results, answers, d) == DispatchHands(results, answers, 1, d)

performAction(results, answers, d) ==
    IF Len(results.gestures) = 0
    THEN [d EXCEPT !.acts.status = "idle"]
    ELSE DispatchHands(results, answers, 1, d)

\* captureFrame, in a loop whose closure holds (cRec, cStart)
captureFrame(lp, landmarks, buffer) ==
    IF lp.cRec /\ Truthy(lp.cStart)
    THEN Append(buffer, extractGestureFeatures(normalizeCoordinates(landmarks)))
    ELSE buffer

\* storeGesture
storeGesture(lp, results, buffer) ==
    IF Len(results.landmarks) > 0
    THEN captureFrame(lp, results.landmarks[1], buffer)
    ELSE buffer

----------------------------------------------------------------------------
(* The frame loops *)

\* the closure and the per-render variables of the render whose effect called
\* createGestureRecognizer
NewLoop(rec, start) ==
    [cRec |-> rec, cStart |-> start, cClassifier |-> classifier,
     gestureRecognizer |-> "null", loading |-> TRUE,
     listener |-> FALSE, raf |-> 0, inflight |-> 0, volumeTimer |-> NoTime,
     wsRegions |-> FALSE, attached |-> 0]

\* model.haveRegions() of the render's GestureModel: setRegions was called on it
haveRegions(lp) == lp.wsRegions

\* the end of createGestureRecognizer: waveform.addPlugin and model.setRegions
attachRegions(lp) ==
    IF ~haveRegions(lp)
    THEN [lp EXCEPT !.wsRegions = TRUE, !.attached = @ + 1]
    ELSE lp

\* the effect of a render, run when video, waveform or isRecording changed
useEffect(changed, v, w, rec, start, ls) ==
    IF changed /\ v /\ w THEN Append(ls, NewLoop(rec, start)) ELSE ls

\* predictWebcam up to its await (ready: the video has dimensions)
predictWebcam(lp, ready) ==
    IF lp.gestureRecognizer = "ready"
    THEN IF ready
         THEN [lp EXCEPT !.inflight = @ + 1]
         ELSE [lp EXCEPT !.raf = @ + 1]
    ELSE lp

RECURSIVE RetryLoop(_, _, _)
\* the while loop of loadModelWithRetry; attempt n succeeds iff outcomes[n]
RetryLoop(outcomes, currentRetry, attempts) ==
    IF currentRetry < maxRetries
    THEN IF outcomes[attempts + 1]
         THEN [attempts |-> attempts + 1, recognizer |-> "ready"]
         ELSE RetryLoop(outcomes, currentRetry + 1, attempts + 1)
    ELSE [attempts |-> attempts, recognizer |-> "null"]

\* loadModelWithRetry without the retries
loadModelOnce(outcomes) == RetryLoop(outcomes, maxRetries - 1, 0)

loadModelWithRetry(outcomes) == RetryLoop(outcomes, 0, 0)

RECURSIVE InFlightOf(_)
InFlightOf(ls) == IF ls = <<>> THEN 0 ELSE Head(ls).inflight + InFlightOf(Tail(ls))

\* recognition calls awaiting their continuation
InFlight == InFlightOf(loops)

----------------------------------------------------------------------------
(* The state machine *)

\* no recognition call has resolved or raised yet
NoFrame == [kind |-> "none", hands |-> 0, forwarded |-> FALSE, live |-> 0]

\* the component after its first render, before any event
Mounted ==
    /\ video = FALSE
    /\ waveform = FALSE
    /\ videoReady = FALSE
    /\ isRecording = FALSE
    /\ recordingStartTime = NoTime
    /\ frameBuffer = <<>>
    /\ recordedGestures = <<>>
    /\ volume = 50
    /\ isVolumeVisible = FALSE
    /\ isRecordingRef = FALSE
    /\ now \in TickSteps
    /\ timers = <<>>
    /\ loops = <<>>
    /\ sess = <<>>
    /\ steps = 0
    /\ classifier = 0
    /\ fits = <<>>
    /\ last = NoFrame
    /\ gestureLabel = ""

NoCall == [fn |-> "none"]

Init ==
    /\ Mounted
    /\ fnIn = NoCall
    /\ fnOut = NoCall

\* history of the sessions: a start opens an entry, a stop closes the last one
SessAfter(st2, who) ==
    IF ~isRecording /\ st2.isRecording
    THEN Append(sess, [start |-> now, stoppedBy |-> "none", by |-> 0,
                       frames |-> <<>>, expected |-> <<>>, before |-> recordedGestures,
                       label |-> gestureLabel,
                       after |-> <<>>, stopTime |-> NoTime])
    ELSE IF isRecording /\ ~st2.isRecording
    THEN [sess EXCEPT ![Len(sess)] =
             [@ EXCEPT !.stoppedBy = IF who = 0 THEN "manual" ELSE "timer",
                       !.by = who,
                       !.label = gestureLabel,
                       !.after = st2.recordedGestures,
                       !.stopTime = now]]
    ELSE sess

\* the state setters of one handler run take effect, the component re-renders
\* and the effect of the new render runs
Commit(st2, who) ==
    /\ isRecording' = st2.isRecording
    /\ recordingStartTime' = st2.recordingStartTime
    /\ frameBuffer' = st2.frameBuffer
    /\ recordedGestures' = st2.recordedGestures
    /\ timers' = st2.timers
    /\ loops' = useEffect(st2.isRecording # isRecording, video, waveform,
                          st2.isRecording, st2.recordingStartTime, loops)
    /\ isRecordingRef' = IF st2.isRecording # isRecording THEN st2.isRecording ELSE st2.ref
    /\ sess' = SessAfter(st2, who)

\* every step counts against the bound on the length of a run
Count == steps < MaxSteps /\ steps' = steps + 1

\* the parent passes the video element
SetVideo ==
    /\ Count
    /\ ~video
    /\ video' = TRUE
    /\ loops' = useEffect(TRUE, TRUE, waveform, isRecording, recordingStartTime, loops)
    /\ isRecordingRef' = isRecording
    /\ UNCHANGED <<waveform, videoReady, isRecording, recordingStartTime, frameBuffer,
                   recordedGestures, volume, isVolumeVisible, now, timers, sess,
                   trainVars, gestureLabel, last, fnVars>>

\* the parent passes the WaveSurfer instance
SetWaveform ==
    /\ Count
    /\ ~waveform
    /\ waveform' = TRUE
    /\ loops' = useEffect(TRUE, video, TRUE, isRecording, recordingStartTime, loops)
    /\ isRecordingRef' = isRecording
    /\ UNCHANGED <<video, videoReady, isRecording, recordingStartTime, frameBuffer,
                   recordedGestures, volume, isVolumeVisible, now, timers, sess,
                   trainVars, gestureLabel, last, fnVars>>

\* the record button: onClick of the latest render
ClickRecord ==
    /\ Count
    /\ Commit(handleRecordButtonClick(Closure, Live), 0)
    /\ UNCHANGED <<video, waveform, videoReady, volume, isVolumeVisible, now,
                   trainVars, gestureLabel, last, fnVars>>

\* the timeout set by the s-th startRecording fires
TimeoutFire(s) ==
    /\ Count
    /\ timers[s].pending
    /\ now >= timers[s].deadline
    /\ Commit(autoStopCallback(timers[s].c,
                               [Live EXCEPT !.timers[s].pending = FALSE]), s)
    /\ UNCHANGED <<video, waveform, videoReady, volume, isVolumeVisible, now,
                   trainVars, gestureLabel, last, fnVars>>

\* createGestureRecognizer of loop l resolves (outcomes: whether each attempt of
\* loadModelWithRetry would succeed), then the effect's then-callback runs
LoadDone(l, outcomes) ==
    /\ Count
    /\ loops[l].loading
    /\ loops' = [loops EXCEPT ![l] =
                    [attachRegions(@) EXCEPT
                        !.gestureRecognizer = loadModelWithRetry(outcomes).recognizer,
                        !.loading = FALSE,
                        !.listener = TRUE,
                        !.raf = @ + 1]]
    /\ UNCHANGED <<video, waveform, videoReady, reactVars, now, timers, sess,
                   trainVars, gestureLabel, last, fnVars>>

\* the video element fires loadeddata: every registered predictWebcam is called
VideoLoaded ==
    /\ Count
    /\ video
    /\ ~videoReady
    /\ videoReady' = TRUE
    /\ loops' = [l \in DOMAIN loops |->
                    IF loops[l].listener THEN predictWebcam(loops[l], TRUE) ELSE loops[l]]
    /\ UNCHANGED <<video, waveform, reactVars, now, timers, sess,
                   trainVars, gestureLabel, last, fnVars>>

\* an animation-frame callback of loop l runs predictWebcam
RafFire(l) ==
    /\ Count
    /\ loops[l].raf > 0
    /\ loops' = [loops EXCEPT ![l] =
                    predictWebcam([loops[l] EXCEPT !.raf = @ - 1], video /\ videoReady)]
    /\ UNCHANGED <<video, waveform, videoReady, reactVars, now, timers, sess,
                   trainVars, gestureLabel, last, fnVars>>

\* history: the feature vector of the first hand of a frame
FirstHandFeatures(results) ==
    extractGestureFeatures(normalizeCoordinates(results.landmarks[1]))

\* if (classifier) recognizeGesture(results.landmarks), in the closure of loop lp
forwardsFrame(lp) == lp.cClassifier # 0

\* recognizeForVideo of loop l resolves to results: the rest of the try block
RecognizeDone(l, results, answers) ==
    /\ Count
    /\ loops[l].inflight > 0
    /\ LET lp == loops[l]
           buffer == IF isRecordingRef
                     THEN storeGesture(lp, results, frameBuffer)
                     ELSE frameBuffer
           d == performAction(results, answers,
                              [volume |-> volume, isVolumeVisible |-> isVolumeVisible,
                               volumeTimer |-> lp.volumeTimer, acts |-> NoActs])
       IN  /\ frameBuffer' = buffer
           /\ volume' = d.volume
           /\ isVolumeVisible' = d.isVolumeVisible
           /\ loops' = [loops EXCEPT ![l] = [lp EXCEPT !.inflight = @ - 1,
                                                       !.raf = @ + 1,
                                                       !.volumeTimer = d.volumeTimer]]
           /\ sess' = [s \in DOMAIN sess |->
                         IF s = Len(sess)
                         THEN [sess[s] EXCEPT
                                  !.frames = IF buffer # frameBuffer
                                             THEN Append(@, buffer[Len(buffer)])
                                             ELSE @,
                                  !.expected = IF isRecording /\ Len(results.landmarks) > 0
                                               THEN Append(@, FirstHandFeatures(results))
                                               ELSE @]
                         ELSE sess[s]]
           /\ last' = [kind |-> "frame", hands |-> Len(results.landmarks),
                       forwarded |-> forwardsFrame(lp), live |-> classifier]
    /\ UNCHANGED <<video, waveform, videoReady, isRecording, recordingStartTime,
                   recordedGestures, isRecordingRef, now, timers, trainVars, gestureLabel, fnVars>>

\* recognizeForVideo of loop l raises: the catch block
RecognizeFail(l) ==
    /\ Count
    /\ loops[l].inflight > 0
    /\ loops' = [loops EXCEPT ![l] = [@ EXCEPT !.inflight = @ - 1, !.raf = @ + 1]]
    /\ last' = [NoFrame EXCEPT !.kind = "error", !.live = classifier]
    /\ UNCHANGED <<video, waveform, videoReady, reactVars, now, timers, sess, trainVars, gestureLabel,
                   fnVars>>

\* the hide-timeout set by handleVolume in the closure of loop l fires
HideVolume(l) ==
    /\ Count
    /\ loops[l].volumeTimer # NoTime
    /\ now >= loops[l].volumeTimer
    /\ isVolumeVisible' = FALSE
    /\ loops' = [loops EXCEPT ![l].volumeTimer = NoTime]
    /\ UNCHANGED <<video, waveform, videoReady, isRecording, recordingStartTime,
                   frameBuffer, recordedGestures, volume, isRecordingRef, now, timers,
                   sess,
                   trainVars, gestureLabel, last, fnVars>>

\* a fit that reads the example set when it completes
fitDataLive(run, gestures) ==
    [inputs |-> TrainInputs(gestures), labels |-> TrainLabels(gestures)]

\* model.fit(xs, ys) of a run: xs and ys are the tensors trainModel built
\* before the call, whatever the example set holds later
fitData(run, gestures) == [inputs |-> run.inputs, labels |-> run.labels]

\* a run that sets the classifier however it settles
fitSettledAnyway(ok, r, current) == r

\* .then(() => setClassifier(model)).catch(...): the classifier after run r settled
fitSettled(ok, r, current) == IF ok THEN r ELSE current

\* the Train Model button: onClick of the latest render calls trainModel
TrainClick ==
    /\ Count
    /\ LET run == trainModel(recordedGestures)
       IN  fits' = Append(fits, [snapshot |-> recordedGestures,
                                 inputs |-> run.inputs,
                                 labels |-> run.labels,
                                 status |-> IF run.started THEN "running" ELSE "skipped",
                                 before |-> classifier,
                                 used |-> [inputs |-> <<>>, labels |-> <<>>],
                                 grown |-> FALSE])
    /\ UNCHANGED <<video, waveform, videoReady, reactVars, now, timers, loops, sess,
                   classifier, last, gestureLabel, fnVars>>

\* model.fit of run r resolves (ok) or rejects
FitSettle(r, ok) ==
    /\ Count
    /\ fits[r].status = "running"
    /\ classifier' = fitSettled(ok, r, classifier)
    /\ fits' = [fits EXCEPT ![r] =
                   [@ EXCEPT !.status = IF ok THEN "done" ELSE "failed",
                             !.used = fitData(fits[r], recordedGestures),
                             !.grown = recordedGestures # fits[r].snapshot]]
    /\ UNCHANGED <<video, waveform, videoReady, reactVars, now, timers, loops, sess,
                   last, gestureLabel, fnVars>>

\* the texts typed into the label input
LabelTexts == {"", "wave"}

\* handleLabelChange: onChange of the label input
handleLabelChange(value) ==
    /\ Count
    /\ value # gestureLabel
    /\ gestureLabel' = value
    /\ UNCHANGED <<video, waveform, videoReady, reactVars, now, timers, loops, sess,
                   trainVars, last, fnVars>>

\* time passes; a timeout that is due fires before time passes it
Tick(d) ==
    /\ Count
    /\ \A s \in DOMAIN timers : timers[s].pending => now + d <= timers[s].deadline
    /\ \A l \in DOMAIN loops :
          loops[l].volumeTimer # NoTime => now + d <= loops[l].volumeTimer
    /\ now' = now + d
    /\ UNCHANGED <<video, waveform, videoReady, reactVars, timers, loops, sess,
                   trainVars, gestureLabel, last, fnVars>>

Next ==
    \/ SetVideo
    \/ SetWaveform
    \/ ClickRecord
    \/ \E s \in DOMAIN timers : TimeoutFire(s)
    \/ \E l \in DOMAIN loops, outcomes \in [1..maxRetries -> BOOLEAN] : LoadDone(l, outcomes)
    \/ VideoLoaded
    \/ \E l \in DOMAIN loops : RafFire(l)
    \/ \E l \in DOMAIN loops, results \in Frames :
          \E answers \in [1..Len(results.gestures) -> LoopAnswers] :
             RecognizeDone(l, results, answers)
    \/ \E l \in DOMAIN loops : RecognizeFail(l)
    \/ \E l \in DOMAIN loops : HideVolume(l)
    \/ \E d \in TickSteps : Tick(d)
    \/ TrainClick
    \/ \E r \in DOMAIN fits, ok \in BOOLEAN : FitSettle(r, ok)
    \/ \E value \in LabelTexts : handleLabelChange(value)

Spec == Init /\ [][Next]_vars

----------------------------------------------------------------------------
(* Longer runs of the recording and training pipeline: the same component
   from its first render, with a recognizer that loads at the first attempt,
   frames of one hand, a gesture model that starts no volume gesture, no
   recognition failure, and before the first auto-stop is due. *)

InitSessions ==
    /\ video = FALSE
    /\ waveform = FALSE
    /\ videoReady = FALSE
    /\ isRecording = FALSE
    /\ recordingStartTime = NoTime
    /\ frameBuffer = <<>>
    /\ recordedGestures = <<>>
    /\ volume = 50
    /\ isVolumeVisible = FALSE
    /\ isRecordingRef = FALSE
    /\ now \in TickSteps
    /\ timers = <<>>
    /\ loops = <<>>
    /\ sess = <<>>
    /\ steps = MaxSteps - MaxSessionSteps
    /\ classifier = 0
    /\ fits = <<>>
    /\ last = NoFrame
    /\ gestureLabel = ""
    /\ fnIn = NoCall
    /\ fnOut = NoCall

SessionFrames == {Frame(<<"Closed_Fist">>, <<"Right">>, <<HandA>>)}

SessionAnswers == {a \in LoopAnswers : ~a.volumeStarted}

NextSessions ==
    \/ SetVideo
    \/ SetWaveform
    \/ ClickRecord
    \/ \E l \in DOMAIN loops : LoadDone(l, [n \in 1..maxRetries |-> TRUE])
    \/ VideoLoaded
    \/ \E l \in DOMAIN loops : RafFire(l)
    \/ \E l \in DOMAIN loops, results \in SessionFrames :
          \E answers \in [1..Len(results.gestures) -> SessionAnswers] :
             RecognizeDone(l, results, answers)
    \/ TrainClick
    \/ \E r \in DOMAIN fits, ok \in BOOLEAN : FitSettle(r, ok)

SpecSessions == InitSessions /\ [][NextSessions]_vars

----------------------------------------------------------------------------
(* The pure functions on their own: Init draws an input, the one action
   applies the function to it. *)

mainVars == <<video, waveform, videoReady, reactVars, now, timers, loops, sess,
              steps, trainVars, gestureLabel, last>>

MaxBuffer == 12
MaxExamples == 3
MaxAttempts == 6

Coords == {-50, 0, 50}
Points == {P(px, 500, pz) : px \in {0, 300}, pz \in Coords}
Offsets == {P(dx, dy, dz) : dx \in {0, 100}, dy \in {0, -100}, dz \in Coords}

\* the hand moved by a constant offset
Translate(landmarks, off) ==
    [i \in DOMAIN landmarks |-> P(landmarks[i].x + off.x,
                                  landmarks[i].y + off.y,
                                  landmarks[i].z + off.z)]

SeqsUpTo(S, n) == UNION {[1..k -> S] : k \in 0..n}

InitNormalize ==
    /\ Mounted
    /\ fnIn \in [fn : {"normalizeCoordinates"},
                 landmarks : {Hand(w, t) : w \in Points, t \in Points},
                 offset : Offsets]
    /\ fnOut = NoCall

ApplyNormalize ==
    /\ fnIn.fn = "normalizeCoordinates"
    /\ fnOut = NoCall
    /\ fnOut' = [fn |-> fnIn.fn,
                 plain |-> normalizeCoordinates(fnIn.landmarks),
                 moved |-> normalizeCoordinates(Translate(fnIn.landmarks, fnIn.offset))]
    /\ UNCHANGED <<mainVars, fnIn>>

SpecNormalize == InitNormalize /\ [][ApplyNormalize]_vars

InitExtract ==
    /\ Mounted
    /\ fnIn \in [fn : {"extractFeatures"},
                 buffer : SeqsUpTo({<<1, 2, 3>>, <<4, 5, 6>>}, MaxBuffer)]
    /\ fnOut = NoCall

ApplyExtract ==
    /\ fnIn.fn = "extractFeatures"
    /\ fnOut = NoCall
    /\ fnOut' = [fn |-> fnIn.fn, features |-> extractFeatures(fnIn.buffer)]
    /\ UNCHANGED <<mainVars, fnIn>>

SpecExtract == InitExtract /\ [][ApplyExtract]_vars

\* x of landmark 8, from -0.3 to 1.3
VolumeXs == -300..1300

InitVolume ==
    /\ Mounted
    /\ fnIn \in [fn : {"handleVolume"}, x : VolumeXs]
    /\ fnOut = NoCall

ApplyVolume ==
    /\ fnIn.fn = "handleVolume"
    /\ fnOut = NoCall
    /\ LET d == handleVolume("Right", Hand(P(500, 500, 0), P(fnIn.x, 500, 0)), TRUE,
                             [volume |-> volume, isVolumeVisible |-> isVolumeVisible,
                              volumeTimer |-> NoTime, acts |-> NoActs])
       IN  fnOut' = [fn |-> fnIn.fn, volume |-> d.volume, visible |-> d.isVolumeVisible,
                     audio |-> d.acts.audio]
    /\ UNCHANGED <<mainVars, fnIn>>

SpecVolume == InitVolume /\ [][ApplyVolume]_vars

\* frames of up to numHands hands, of either handedness and any of three shapes
DispatchFrames ==
    {Frame([i \in 1..n |-> "Closed_Fist"], hs, ls) :
        <<n, hs, ls>> \in UNION {{<<k, h, l>> : h \in [1..k -> {"Left", "Right"}],
                                               l \in [1..k -> {HandA, HandB, HandC}]}
                                 : k \in 0..numHands}}

InitDispatch ==
    /\ Mounted
    /\ fnIn \in UNION {[fn : {"performAction"}, results : {fr},
                        answers : [1..Len(fr.gestures) -> Answers]] : fr \in DispatchFrames}
    /\ fnOut = NoCall

ApplyDispatch ==
    /\ fnIn.fn = "performAction"
    /\ fnOut = NoCall
    /\ fnOut' = [fn |-> fnIn.fn,
                 d |-> performAction(fnIn.results, fnIn.answers,
                                     [volume |-> volume,
                                      isVolumeVisible |-> isVolumeVisible,
                                      volumeTimer |-> NoTime, acts |-> NoActs])]
    /\ UNCHANGED <<mainVars, fnIn>>

SpecDispatch == InitDispatch /\ [][ApplyDispatch]_vars

\* what each construction attempt would do, were it made
InitLoad ==
    /\ Mounted
    /\ fnIn \in [fn : {"loadModelWithRetry"}, outcomes : [1..MaxAttempts -> BOOLEAN]]
    /\ fnOut = NoCall

ApplyLoad ==
    /\ fnIn.fn = "loadModelWithRetry"
    /\ fnOut = NoCall
    /\ fnOut' = [fn |-> fnIn.fn, run |-> loadModelWithRetry(fnIn.outcomes)]
    /\ UNCHANGED <<mainVars, fnIn>>

SpecLoad == InitLoad /\ [][ApplyLoad]_vars

Labels == {"gestureLabel", "wave", ""}
Examples == [x : {<<<<1, 2, 3>>>>, <<<<1, 2, 3>>, <<4, 5, 6>>>>}, y : Labels, duration : {2000}]

InitTrain ==
    /\ Mounted
    /\ fnIn \in [fn : {"trainModel"}, recordedGestures : SeqsUpTo(Examples, MaxExamples)]
    /\ fnOut = NoCall

ApplyTrain ==
    /\ fnIn.fn = "trainModel"
    /\ fnOut = NoCall
    /\ fnOut' = [fn |-> fnIn.fn, run |-> trainModel(fnIn.recordedGestures)]
    /\ UNCHANGED <<mainVars, fnIn>>

SpecTrain == InitTrain /\ [][ApplyTrain]_vars

----------------------------------------------------------------------------
(* Claims *)

\* the timeout of session s fires in this step
Fires(s) == timers[s].pending /\ ~timers'[s].pending

\* session s is the one being recorded
Current(s) == isRecording /\ s = Len(sess)

\* C1: at most one recognizeForVideo call is in flight at any moment
C1_AtMostOneInFlight == InFlight <= 1

\* C2: a session that is not stopped by hand is stopped by its 2000 ms
\* deadline: it is never recording past start + 2000 ms, and the timeout that
\* ends it fires at start + 2000 ms, not before
C2_StoppedByOwnDeadline ==
    /\ isRecording => now <= sess[Len(sess)].start + MAX_RECORDING_DURATION
    /\ \A s \in DOMAIN sess :
          sess[s].stoppedBy = "timer" =>
             sess[s].stopTime = sess[s].start + MAX_RECORDING_DURATION

\* What holds of the auto-stop: when the timeout of a session fires while that
\* session is still being recorded, it goes to Idle; a timeout that fires when
\* nothing is being recorded stops nothing, starts nothing and appends nothing.
AutoStopOfLiveSession ==
    [][\A s \in DOMAIN timers :
          Fires(s) =>
             /\ Current(s) => (~isRecording' /\ Len(timers') = Len(timers))
             /\ ~isRecording => /\ ~isRecording'
                                /\ Len(timers') = Len(timers)
                                /\ recordedGestures' = recordedGestures]_vars

\* C3: the timeout of a session that was stopped by hand stops nothing and
\* appends nothing when it fires: nothing changes when no session is being
\* recorded, and a new session that has not reached its own deadline stays
\* Recording
C3_ManualStopCancels ==
    [][\A s \in DOMAIN timers :
          (/\ Fires(s)
           /\ sess[s].stoppedBy = "manual"
           /\ isRecording => now < sess[Len(sess)].start + MAX_RECORDING_DURATION) =>
             /\ isRecording' = isRecording
             /\ recordedGestures' = recordedGestures]_vars

\* C4: a stop of a session in which no frame was captured leaves the example
\* set as it was before the session started
C4_EmptyStopAppendsNothing ==
    [][(isRecording /\ ~isRecording' /\ sess[Len(sess)].frames = <<>>) =>
          /\ recordedGestures' = recordedGestures
          /\ recordedGestures' = sess[Len(sess)].before]_vars

C4_Witness ==
    \E s \in DOMAIN sess :
        /\ sess[s].stoppedBy = "manual"
        /\ sess[s].frames = <<>>
        /\ sess[s].after = sess[s].before

\* a stop appended one example holding the session's frames and duration
AppendedExample(s) ==
    /\ Len(sess[s].after) = Len(sess[s].before) + 1
    /\ SubSeq(sess[s].after, 1, Len(sess[s].before)) = sess[s].before
    /\ sess[s].after[Len(sess[s].after)].x = sess[s].frames
    /\ sess[s].after[Len(sess[s].after)].duration = sess[s].stopTime - sess[s].start

\* C5: every stop, by the toggle or by the deadline, of a session that captured
\* frames appends exactly one example with these frames and now - startTime
C5_StopAppendsExample ==
    \A s \in DOMAIN sess :
        (sess[s].stoppedBy # "none" /\ sess[s].frames # <<>>) => AppendedExample(s)

\* What holds of the stops by the toggle: they append the example
ManualStopAppendsExample ==
    \A s \in DOMAIN sess :
        (sess[s].stoppedBy = "manual" /\ sess[s].frames # <<>>) => AppendedExample(s)

ManualStopWitness ==
    \E s \in DOMAIN sess : sess[s].stoppedBy = "manual" /\ sess[s].frames # <<>>

RECURSIVE CountOf(_, _)
\* the number of entries of a sequence equal to v
CountOf(xs, v) ==
    IF xs = <<>> THEN 0
    ELSE (IF Head(xs) = v THEN 1 ELSE 0) + CountOf(Tail(xs), v)

\* C10: the drum sound is asked for and played for Left hands only: a frame
\* makes one getDrumSound query per Left hand, none for a Right hand, and
\* every playSound is made while a Left hand is handled
C10_DrumsOnlyLeft ==
    fnOut.fn = "performAction" =>
        LET a == fnOut.d.acts
        IN  /\ CountOf(a.calls, Call("getDrumSound", "Left"))
                  = CountOf(fnIn.results.handednesses, "Left")
            /\ \A k \in DOMAIN a.calls :
                  a.calls[k].fn = "getDrumSound" => a.calls[k].hand = "Left"
            /\ \A k \in DOMAIN a.audio :
                  a.audio[k].fn = "playSound" => a.audio[k].hand = "Left"

\* a frame with one Right hand that the model holds a drum sound for
C10_Witness ==
    /\ fnOut.fn = "performAction"
    /\ fnIn.results.handednesses = <<"Right">>
    /\ fnIn.answers[1].drum = "kick"
    /\ \A k \in DOMAIN fnOut.d.acts.audio : fnOut.d.acts.audio[k].fn # "playSound"

\* C6: normalizing a hand and normalizing the same hand moved by a constant
\* offset give the same 21 points
C6_TranslationInvariant ==
    fnOut.fn = "normalizeCoordinates" => fnOut.plain = fnOut.moved

\* C7: extractFeatures gives 30 entries: entry 3*t+f is feature f of frame t for
\* the first min(n, 10) frames, zero elsewhere
C7_WindowOfThirty ==
    fnOut.fn = "extractFeatures" =>
        LET n == Min(Len(fnIn.buffer), normal_seq_len)
        IN  /\ Len(fnOut.features) = 30
            /\ \A t \in 0..(n - 1), f \in 0..2 :
                  fnOut.features[3 * t + f + 1] = fnIn.buffer[t + 1][f + 1]
            /\ \A k \in (3 * n + 1)..30 : fnOut.features[k] = 0

\* C8: the percent shown is (1 - x) * 100 rounded to the nearest integer and
\* clamped to [0, 100]; the audio engine gets 1 - x unclamped
C8_VolumeClamped ==
    fnOut.fn = "handleVolume" =>
        LET v == 1000 - fnIn.x
        IN  /\ fnOut.audio = <<Audio("setVolume", "Right", v)>>
            /\ fnOut.volume \in 0..100
            /\ v >= 1000 => fnOut.volume = 100
            /\ v <= 0 => fnOut.volume = 0
            /\ (v > 0 /\ v < 1000) =>
                  /\ 10 * fnOut.volume - v <= 5
                  /\ v - 10 * fnOut.volume <= 5

\* C9: the label rows of a training run are, in example order, [1,0,0,0] for
\* the label "gestureLabel" and [0,1,0,0] for any other label
C9_LabelRows ==
    (fnOut.fn = "trainModel" /\ fnOut.run.started) =>
        /\ Len(fnOut.run.labels) = Len(fnIn.recordedGestures)
        /\ \A i \in DOMAIN fnIn.recordedGestures :
              /\ fnIn.recordedGestures[i].y = "gestureLabel" =>
                    fnOut.run.labels[i] = <<1, 0, 0, 0>>
              /\ fnIn.recordedGestures[i].y # "gestureLabel" =>
                    fnOut.run.labels[i] = <<0, 1, 0, 0>>

\* a run on one example of each kind
C9_Witness ==
    /\ fnOut.fn = "trainModel"
    /\ Len(fnIn.recordedGestures) = 2
    /\ fnIn.recordedGestures[1].y = "gestureLabel"
    /\ fnIn.recordedGestures[2].y = "wave"
    /\ fnOut.run.labels = << <<1, 0, 0, 0>>, <<0, 1, 0, 0>> >>

\* C11: a frame without hands sets the status to the idle indicator and does
\* nothing else: no call to the gesture model, no call to the audio engine or
\* the sound manager, the volume state and its hide-timer untouched
C11_NoHandsIdleOnly ==
    (fnOut.fn = "performAction" /\ Len(fnIn.results.gestures) = 0) =>
        /\ fnOut.d.acts.status = "idle"
        /\ fnOut.d.acts.calls = <<>>
        /\ fnOut.d.acts.audio = <<>>
        /\ fnOut.d.volume = volume
        /\ fnOut.d.isVolumeVisible = isVolumeVisible
        /\ fnOut.d.volumeTimer = NoTime

C11_Witness ==
    /\ fnOut.fn = "performAction"
    /\ fnIn.results.landmarks = <<>>
    /\ fnOut.d.acts = [NoActs EXCEPT !.status = "idle"]

\* C12: loadModelWithRetry makes at most 3 attempts and none after the first
\* success; it returns a recognizer exactly when one of them succeeded and
\* none exactly when all 3 raised
C12_AtMostThreeAttempts ==
    fnOut.fn = "loadModelWithRetry" =>
        LET ok == {n \in 1..3 : fnIn.outcomes[n]}
        IN  /\ fnOut.run.attempts \in 1..3
            /\ ok # {} => /\ fnOut.run.recognizer = "ready"
                          /\ fnOut.run.attempts \in ok
                          /\ \A n \in ok : fnOut.run.attempts <= n
            /\ ok = {} => /\ fnOut.run.recognizer = "null"
                          /\ fnOut.run.attempts = 3

\* the third attempt is the first to succeed
C12_Witness ==
    /\ fnOut.fn = "loadModelWithRetry"
    /\ ~fnIn.outcomes[1] /\ ~fnIn.outcomes[2] /\ fnIn.outcomes[3]
    /\ fnOut.run = [attempts |-> 3, recognizer |-> "ready"]

\* every initialization so far has ended without a recognizer
InitFailed ==
    /\ loops # <<>>
    /\ \A l \in DOMAIN loops : ~loops[l].loading /\ loops[l].gestureRecognizer = "null"

\* C13: once the initialization has failed, no event starts another one and
\* no recognition call is issued
C13_FailureIsPermanent ==
    [][InitFailed => /\ Len(loops') = Len(loops)
                     /\ \A l \in DOMAIN loops' : loops'[l].inflight = 0]_vars

RECURSIVE AttachedOf(_)
\* the number of times the regions plugin was attached
AttachedOf(ls) == IF ls = <<>> THEN 0 ELSE Head(ls).attached + AttachedOf(Tail(ls))

\* C14: the regions plugin is attached at most once
C14_RegionsAttachedOnce == AttachedOf(loops) <= 1

\* the iterations of a loop that are armed or awaiting their continuation
Pending(lp) == lp.raf + lp.inflight

\* C16: an iteration of a frame loop never ends without the next one armed
C16_AlwaysRearmed ==
    [][\A l \in DOMAIN loops :
          ~loops[l].loading => Pending(loops'[l]) >= Pending(loops[l])]_vars

\* C17: the classifier changes only when a run started on a non-empty example
\* set completes; a call on an empty set starts no run, and a skipped, failed
\* or running run is never the classifier
C17_ClassifierOnlyBySuccess ==
    [][/\ classifier' # classifier =>
             \E r \in DOMAIN fits : /\ fits[r].status = "running"
                                     /\ fits'[r].status = "done"
                                     /\ fits[r].snapshot # <<>>
                                     /\ classifier' = r
       /\ \A r \in DOMAIN fits' :
             /\ fits'[r].status = "skipped" <=> fits'[r].snapshot = <<>>
             /\ fits'[r].status # "done" => classifier' # r
             /\ (fits'[r].status = "failed" /\ fits[r].status = "running") =>
                    classifier' = classifier
             /\ r \notin DOMAIN fits => classifier' = classifier]_vars

\* a run on a non-empty example set completed and set the classifier
C17_Witness ==
    /\ classifier # 0
    /\ fits[classifier].status = "done"
    /\ fits[classifier].snapshot # <<>>

\* C17 as stated: while a run is in progress the classifier is the one that
\* was current when the run started
C17_UnchangedWhileRunning ==
    \A r \in DOMAIN fits : fits[r].status = "running" => classifier = fits[r].before

\* C20: the frames a session captured are the feature vectors of the first
\* hand of every frame with a hand recognized while it was recording
C20_EveryFrameCaptured ==
    \A s \in DOMAIN sess : sess[s].frames = sess[s].expected

\* What holds of the capture: a captured frame is the feature vector of the
\* first hand of a recognized frame, and nothing is captured outside a session
CapturedAreRecognized ==
    [][/\ \A s \in DOMAIN sess :
             s \in DOMAIN sess' /\ sess'[s].frames # sess[s].frames =>
                /\ isRecording
                /\ sess'[s].expected # sess[s].expected
                /\ sess'[s].frames =
                      Append(sess[s].frames, sess'[s].expected[Len(sess'[s].expected)])
       /\ ~isRecording /\ ~isRecording' => frameBuffer' = frameBuffer]_vars

\* the length of an example once flattened for training
FlatLen(g) == Len(Flat(g.x))

\* C15: all examples of the example set have the same flattened length
C15_SameVectorLength ==
    \A i, j \in DOMAIN recordedGestures :
        FlatLen(recordedGestures[i]) = FlatLen(recordedGestures[j])

\* C18: the inputs and labels a run trained on are those of the examples the
\* example set held when trainModel was called, one per example in order
C18_TrainsOnSnapshot ==
    \A r \in DOMAIN fits :
        fits[r].status = "done" =>
           /\ Len(fits[r].used.inputs) = Len(fits[r].snapshot)
           /\ Len(fits[r].used.labels) = Len(fits[r].snapshot)
           /\ \A i \in DOMAIN fits[r].snapshot :
                 /\ fits[r].used.inputs[i] = Flat(fits[r].snapshot[i].x)
                 /\ fits[r].used.labels[i] = LabelRow(fits[r].snapshot[i])

\* a run completed after a session had appended an example to the set
C18_Witness ==
    \E r \in DOMAIN fits :
        /\ fits[r].status = "done"
        /\ fits[r].grown
        /\ Len(fits[r].used.inputs) = Len(fits[r].snapshot)

\* C19: a frame recognized while a classifier is present is forwarded to
\* recognizeGesture; a frame recognized before is not
C19_ForwardedOncePresent ==
    last.kind = "frame" => (last.forwarded <=> last.live # 0)

\* the example a stop of session s appended, if it appended one
Appended(s) == sess[s].after[Len(sess[s].after)]

\* C21: the example appended on a stop carries the text of the label input at
\* the time of the stop, and the placeholder "gestureLabel" when no text was
\* entered
C21_LabelOfTheInput ==
    \A s \in DOMAIN sess :
        (sess[s].stoppedBy # "none" /\ Len(sess[s].after) > Len(sess[s].before)) =>
            Appended(s).y = IF sess[s].label = "" THEN "gestureLabel" ELSE sess[s].label

\* What holds of the label: every example carries the placeholder
LabelIsThePlaceholder ==
    \A i \in DOMAIN recordedGestures : recordedGestures[i].y = "gestureLabel"

RECURSIVE PendingHides(_)
\* the number of hide-timers that are pending
PendingHides(ls) ==
    IF ls = <<>> THEN 0
    ELSE (IF Head(ls).volumeTimer # NoTime THEN 1 ELSE 0) + PendingHides(Tail(ls))

\* the indicator is shown while less than 3 seconds have passed since a volume
\* update: the hide-timer that update set is pending and not yet due
VisibleUntilHideDue ==
    \A l \in DOMAIN loops :
        (loops[l].volumeTimer # NoTime /\ now < loops[l].volumeTimer) => isVolumeVisible

\* C22: at most one hide-timer is pending, and the indicator is hidden only
\* when 3 seconds have passed since the last volume update
C22_OneHideTimer ==
    /\ PendingHides(loops) <= 1
    /\ VisibleUntilHideDue

\* What holds of the hide-timer: within one frame loop an update replaces the
\* pending timer, the indicator is shown by every update, and it is hidden only
\* by a timer that is due
HideTimerOfOneLoop ==
    [][/\ \A l \in DOMAIN loops :
             (loops'[l].volumeTimer # loops[l].volumeTimer
                 /\ loops'[l].volumeTimer # NoTime) =>
                /\ loops'[l].volumeTimer = now + VolumeHideDelay
                /\ isVolumeVisible'
       /\ (isVolumeVisible /\ ~isVolumeVisible') =>
             \E l \in DOMAIN loops : /\ loops[l].volumeTimer # NoTime
                                      /\ now >= loops[l].volumeTimer
                                      /\ loops'[l].volumeTimer = NoTime]_vars

====
